---- MODULE Spec2Model ----
(***************************************************************************)
(* cleanmyx: search a profile for keyword tweets, classify each distinct   *)
(* tweet, aggregate a report.                                              *)
(*   src/src/analyzer.py   TwitterSearcher   (search client, validator)    *)
(*   src/src/extractor.py  ControversyAnalyzer (classifier client)         *)
(*   src/src/main.py       analyze_profile   (aggregator)                  *)
(* Strings are sequences of one-character strings; the upstream services   *)
(* answer each request with a value drawn from a small set.                *)
(***************************************************************************)
EXTENDS Integers, Sequences, FiniteSets, TLC

VARIABLES
    pc,                   \* position of analyze_profile
    username,             \* main.py: username
    looked_up,            \* the answers of the user lookup endpoint so far
    tweets,               \* main.py: tweets
    total_tweets_found,   \* main.py: total_tweets_found
    kw,                   \* main.py: index of the fallback loop over the keywords
    idx,                  \* main.py: index of the analysis loop over tweets
    analyzed_tweet_ids,   \* main.py: analyzed_tweet_ids
    all_results,          \* main.py: all_results
    controversial_tweets, \* main.py: controversial_tweets
    report,               \* main.py: the returned dictionary (NoReport before the return)
    s_pc,                 \* position of the running search call
    s_kind,               \* which search function runs: "batch" | "single"
    s_keyword,            \* the keyword argument of search_tweets_by_keyword (0: none),
                          \* as its index in the keyword list
    s_keywords,           \* the keyword list the search call works with
    query,                \* analyzer.py: query
    all_tweets,           \* analyzer.py: all_tweets
    next_token,           \* analyzer.py: next_token (0: None)
    s_exc,                \* exception leaving the search call ("none" if it returned)
    requests,             \* the requests the search endpoint received during the call
    c_pc,                 \* position of the running analyze_controversy call
    c_text,               \* extractor.py: tweet_text
    c_result,             \* what analyze_controversy returned
    c_requests,           \* requests the classification service received during the call
    c_last,               \* the last answer of the classification service
    calls,                \* the analyze_controversy calls made by analyze_profile
    sleeps,               \* number of time.sleep(60) calls so far
    served,               \* raw records the search endpoint has served so far
    errors                \* rate-limit errors the upstream services have answered so far

vars == <<pc, username, looked_up, tweets, total_tweets_found, kw, idx, analyzed_tweet_ids,
          all_results, controversial_tweets, report, s_pc, s_kind, s_keyword, s_keywords,
          query, all_tweets, next_token, s_exc, requests, c_pc, c_text, c_result, c_requests, c_last, calls,
          sleeps, served, errors>>

profileVars == <<pc, username, looked_up, tweets, total_tweets_found, kw, idx,
                 analyzed_tweet_ids, all_results, controversial_tweets, report, calls>>
searchVars == <<s_pc, s_kind, s_keyword, s_keywords, query, all_tweets, next_token,
                s_exc, requests, served>>
classifyVars == <<c_pc, c_text, c_result, c_requests, c_last>>

(***************************************************************************)
(* Bounds of the model.                                                    *)
(***************************************************************************)
MaxPages == 2        \* pages the search endpoint serves for one query
MaxServed == 3       \* raw records the search endpoint serves in one run
MaxPageLen == 2      \* raw records on one page
MaxRateLimits == 2   \* rate-limit errors the upstream services answer in one run

(***************************************************************************)
(* Strings.                                                                *)
(***************************************************************************)
\* str.lower(), one character
LowerChar(c) ==
    CASE c = "A" -> "a"
      [] c = "B" -> "b"
      [] c = "C" -> "c"
      [] OTHER -> c

\* mutant: the comparison keeps the case of the letters
LowerUnchanged(s) == s

\* str.lower()
Lower(s) == [i \in 1..Len(s) |-> LowerChar(s[i])]

\* the Python operator in, on strings
Contains(s, sub) ==
    \E i \in 0..(Len(s) - Len(sub)) : SubSeq(s, i + 1, i + Len(sub)) = sub

\* keywords.py: CONTROVERSIAL_KEYWORDS (a fixed curated list)
CONTROVERSIAL_KEYWORDS == << <<"a">>, <<"b", " ", "c">> >>

NoKeyword == 0

(***************************************************************************)
(* The search endpoint's data (tweepy.Client.search_recent_tweets).        *)
(* None is written <<>> for created_at; a datetime is a date and a time.   *)
(* public_metrics is an object: falsy or truthy, with the attributes       *)
(* getattr can find on it.                                                 *)
(***************************************************************************)
None == <<>>

MetricNames == {"like_count", "retweet_count", "reply_count", "quote_count"}

NoMetrics == [truthy |-> FALSE, attrs |-> [n \in {} |-> 0]]
SomeMetrics == [truthy |-> TRUE,
                attrs |-> [n \in {"like_count", "retweet_count"} |-> 2]]

RawTweets ==
    { [id |-> 1, text |-> <<"A", " ", "b", " ", "c">>,
       created_at |-> <<"2024-01-01", "10:00:00">>, public_metrics |-> SomeMetrics],
      [id |-> 2, text |-> <<"B", " ", "C">>,
       created_at |-> None, public_metrics |-> NoMetrics],
      [id |-> 1, text |-> <<"x">>,
       created_at |-> None, public_metrics |-> SomeMetrics] }

NullMeta == [null |-> TRUE, next_token |-> 0, remaining |-> -1]

\* response.meta: next_token 0 is an absent token, remaining -1 an absent key
Meta(token, remaining) == [null |-> FALSE, next_token |-> token, remaining |-> remaining]

OkResponse(data, meta) == [kind |-> "ok", data |-> data, meta |-> meta]
ErrResponse(e) == [kind |-> e, data |-> <<>>, meta |-> NullMeta]

SearchErrors == {"TooManyRequests", "BadRequest", "NotFound", "Error"}

RECURSIVE SeqsUpTo(_, _)
SeqsUpTo(S, n) ==
    IF n = 0 THEN {<<>>}
    ELSE LET shorter == SeqsUpTo(S, n - 1)
         IN  shorter \cup {Append(q, x) : q \in {r \in shorter : Len(r) = n - 1}, x \in S}

Min(a, b) == IF a < b THEN a ELSE b

\* number of pages the endpoint has served during the running call
PagesServed == Cardinality({i \in DOMAIN requests : requests[i].kind = "ok"})

\* what the endpoint may answer to the next request of the running call;
\* Remainings are the remaining-quota values it reports
SearchAnswers(Remainings) ==
    LET datas == SeqsUpTo(RawTweets, Min(MaxPageLen, MaxServed - served))
        tokens == IF PagesServed + 1 < MaxPages THEN {0, PagesServed + 1} ELSE {0}
        metas == {Meta(t, r) : t \in tokens, r \in Remainings}
                     \cup (IF -1 \in Remainings THEN {NullMeta} ELSE {})
    IN  {OkResponse(d, m) : d \in datas, m \in metas}
            \cup {ErrResponse(e) : e \in SearchErrors \ {"TooManyRequests"}}
            \cup (IF errors < MaxRateLimits THEN {ErrResponse("TooManyRequests")} ELSE {})

(***************************************************************************)
(* TwitterSearcher: normalisation of a raw record.                         *)
(***************************************************************************)
\* datetime.isoformat()
IsoFormat(dt) == <<dt[1], "T", dt[2]>>

\* getattr(tweet.public_metrics, name, 0)
GetAttr(obj, name) == IF name \in DOMAIN obj.attrs THEN obj.attrs[name] ELSE 0

\* "extract public metrics safely"
ExtractMetrics(pm) ==
    IF pm.truthy THEN [n \in MetricNames |-> GetAttr(pm, n)] ELSE [n \in {} |-> 0]

\* keywords of the list found in the text, case-insensitive
RECURSIVE MatchKeywords(_, _)
MatchKeywords(text, keywords) ==
    IF keywords = <<>> THEN <<>>
    ELSE LET rest == MatchKeywords(text, Tail(keywords))
         IN  IF Contains(Lower(text), Lower(Head(keywords)))
             THEN <<Head(keywords)>> \o rest
             ELSE rest

\* the dictionary appended to all_tweets; an absent key is written <<>>
\* ('keyword' in a batch item, 'matched_keywords' in a per-keyword item)
BatchItem(tweet, keywords) ==
    [id |-> tweet.id, text |-> tweet.text,
     created_at |-> IF tweet.created_at # None THEN IsoFormat(tweet.created_at) ELSE None,
     public_metrics |-> ExtractMetrics(tweet.public_metrics),
     keyword |-> <<>>,
     matched_keywords |-> MatchKeywords(tweet.text, keywords)]

KeywordItem(tweet, keyword) ==
    [id |-> tweet.id, text |-> tweet.text,
     created_at |-> IF tweet.created_at # None THEN IsoFormat(tweet.created_at) ELSE None,
     public_metrics |-> ExtractMetrics(tweet.public_metrics),
     keyword |-> keyword,
     matched_keywords |-> <<>>]

\* the items one page adds to all_tweets
PageItems(data, kind, keyword) ==
    [i \in 1..Len(data) |->
        IF kind = "batch" THEN BatchItem(data[i], s_keywords)
        ELSE KeywordItem(data[i], s_keywords[keyword])]

\* mutant: the continuation token is never read
NextTokenIgnored(meta) == 0

\* response.meta.get('next_token') if response.meta else None
NextToken(meta) == IF meta.null THEN 0 ELSE meta.next_token

\* response.meta and response.meta.get('remaining', 0) == 0
QuotaExhausted(meta) ==
    /\ ~meta.null
    /\ (IF meta.remaining = -1 THEN 0 ELSE meta.remaining) = 0

(***************************************************************************)
(* TwitterSearcher: the query of a search call.                            *)
(***************************************************************************)
Username == <<"u", "1">>

\* the characters, besides the space, that make the batch search quote a keyword
SpecialChars == {"\"", "'", "(", ")"}

\* mutant: only a keyword with a space is quoted
EscapedOnSpace(keyword) ==
    IF Contains(keyword, <<" ">>) THEN <<"\"">> \o keyword \o <<"\"">> ELSE keyword

\* "wrap in quotes if keyword contains spaces or special characters"
Escaped(keyword) ==
    IF Contains(keyword, <<" ">>) \/ (\E char \in SpecialChars : Contains(keyword, <<char>>))
    THEN <<"\"">> \o keyword \o <<"\"">>
    ELSE keyword

\* str.join
RECURSIVE Join(_, _)
Join(sep, parts) ==
    IF parts = <<>> THEN <<>>
    ELSE IF Len(parts) = 1 THEN parts[1]
    ELSE parts[1] \o sep \o Join(sep, Tail(parts))

\* "combine keywords with OR operator": from:username (keyword1 OR keyword2 OR ...)
BatchQuery(user, keywords) ==
    <<"f", "r", "o", "m", ":">> \o user \o <<" ", "(">>
        \o Join(<<" ", "O", "R", " ">>, [i \in 1..Len(keywords) |-> Escaped(keywords[i])])
        \o <<")">>

\* the query of search_tweets_by_keyword
KeywordQuery(user, keyword) == <<"f", "r", "o", "m", ":">> \o user \o <<" ">> \o keyword

\* the query of either search function
Query(kind, user, keywords, keyword) ==
    IF kind = "batch" THEN BatchQuery(user, keywords)
    ELSE KeywordQuery(user, keywords[keyword])

(***************************************************************************)
(* TwitterSearcher.search_tweets_by_keywords_batch and                     *)
(* TwitterSearcher.search_tweets_by_keyword: one action per request.       *)
(***************************************************************************)
\* entry of either search function: all_tweets = [], then the initial request
EnterSearch(kind, keyword) ==
    /\ s_pc' = "initial"
    /\ s_kind' = kind
    /\ s_keyword' = keyword
    /\ s_keywords' = CONTROVERSIAL_KEYWORDS
    /\ query' = Query(kind, username, CONTROVERSIAL_KEYWORDS, keyword)
    /\ all_tweets' = <<>>
    /\ next_token' = 0
    /\ s_exc' = "none"
    /\ requests' = <<>>

\* the search call is over and its locals are gone
LeaveSearch ==
    /\ s_pc' = "idle"
    /\ s_kind' = "batch"
    /\ s_keyword' = NoKeyword
    /\ s_keywords' = <<>>
    /\ query' = <<>>
    /\ all_tweets' = <<>>
    /\ next_token' = 0
    /\ s_exc' = "none"
    /\ requests' = <<>>

\* mutant: the batch search swallows a BadRequest like any other error
OnInitialErrorSwallowed(kind, e) == "return"

\* mutant: every error of the initial request leaves the search function
OnInitialErrorRaised(kind, e) == "raise"

\* the except clauses of the outer try: what an error of the initial request does
OnInitialError(kind, e) ==
    IF e = "BadRequest" /\ kind = "batch" THEN "raise" ELSE "return"

\* mutant: the loop gives up after every error, the rate limit included
OnPageErrorBroken(e) == "break"

\* mutant: the loop retries after every error
OnPageErrorRetried(e) == "retry"

\* the except clauses of the try inside the while loop
OnPageError(e) ==
    IF e = "TooManyRequests" THEN "retry" ELSE "break"

\* the sleeps an error of the initial request causes before the function returns
InitialErrorSleeps(e) == IF e = "TooManyRequests" THEN 1 ELSE 0

\* the sleeps after a page of the while loop
PageSleeps(meta) == IF QuotaExhausted(meta) THEN 1 ELSE 0

\* what the endpoint saw: the token the request carried, and its own answer
Logged(token, resp) ==
    [query |-> query, token |-> token, kind |-> resp.kind, data |-> resp.data, meta |-> resp.meta]

\* the initial request and everything up to the while loop's first test
InitialRequest(resp) ==
    /\ s_pc = "initial"
    /\ requests' = Append(requests, Logged(0, resp))
    /\ served' = served + Len(resp.data)
    /\ errors' = errors + (IF resp.kind = "TooManyRequests" THEN 1 ELSE 0)
    /\ IF resp.kind = "ok"
       THEN /\ all_tweets' = all_tweets \o PageItems(resp.data, s_kind, s_keyword)
            /\ next_token' = NextToken(resp.meta)
            /\ s_pc' = IF NextToken(resp.meta) # 0 THEN "paging" ELSE "returned"
            /\ UNCHANGED <<s_exc, sleeps>>
       ELSE /\ sleeps' = sleeps + InitialErrorSleeps(resp.kind)
            /\ s_pc' = IF OnInitialError(s_kind, resp.kind) = "raise"
                       THEN "raised" ELSE "returned"
            /\ s_exc' = IF OnInitialError(s_kind, resp.kind) = "raise"
                        THEN resp.kind ELSE "none"
            /\ UNCHANGED <<all_tweets, next_token>>
    /\ UNCHANGED <<s_kind, s_keyword, s_keywords, query>>
    /\ UNCHANGED profileVars
    /\ UNCHANGED classifyVars

\* one iteration of the while loop over next_token
PageRequest(resp) ==
    /\ s_pc = "paging"
    /\ requests' = Append(requests, Logged(next_token, resp))
    /\ served' = served + Len(resp.data)
    /\ errors' = errors + (IF resp.kind = "TooManyRequests" THEN 1 ELSE 0)
    /\ IF resp.kind = "ok"
       THEN /\ all_tweets' = all_tweets \o PageItems(resp.data, s_kind, s_keyword)
            /\ next_token' = NextToken(resp.meta)
            /\ sleeps' = sleeps + PageSleeps(resp.meta)
            /\ s_pc' = IF NextToken(resp.meta) # 0 THEN "paging" ELSE "returned"
       ELSE IF OnPageError(resp.kind) = "retry"
       THEN /\ sleeps' = sleeps + 1
            /\ UNCHANGED <<all_tweets, next_token, s_pc>>
       ELSE /\ s_pc' = "returned"
            /\ UNCHANGED <<all_tweets, next_token, sleeps>>
    /\ UNCHANGED <<s_kind, s_keyword, s_keywords, query, s_exc>>
    /\ UNCHANGED profileVars
    /\ UNCHANGED classifyVars

(***************************************************************************)
(* One search call on its own: the function and its keyword are the        *)
(* inputs, the endpoint answers with every metadata shape.                 *)
(***************************************************************************)
NoReport ==
    [returned |-> FALSE, keywords_searched |-> <<>>, total_tweets_found |-> 0,
     controversial_count |-> 0, tweets |-> <<>>, controversial_tweets |-> <<>>,
     summary |-> [total_analyzed |-> 0, controversial |-> 0, non_controversial |-> 0]]

InitIdle ==
    /\ tweets = <<>>
    /\ total_tweets_found = 0
    /\ kw = 0
    /\ idx = 0
    /\ analyzed_tweet_ids = {}
    /\ all_results = <<>>
    /\ controversial_tweets = <<>>
    /\ report = NoReport
    /\ looked_up = <<>>
    /\ calls = <<>>
    /\ sleeps = 0
    /\ served = 0
    /\ errors = 0

SearchIdle ==
    /\ s_pc = "idle"
    /\ s_kind = "batch"
    /\ s_keyword = NoKeyword
    /\ s_keywords = <<>>
    /\ query = <<>>
    /\ all_tweets = <<>>
    /\ next_token = 0
    /\ s_exc = "none"
    /\ requests = <<>>

ClassifyIdle ==
    /\ c_pc = "idle"
    /\ c_text = <<>>
    /\ c_result = [is_controversial |-> FALSE, controversy_score |-> 0,
                   reasons |-> <<>>, topics |-> <<>>]
    /\ c_requests = 0
    /\ c_last = [kind |-> "none", null |-> TRUE, content |-> <<>>]

AllRemainings == {-1, 0, 1}

InitSearch ==
    /\ pc = "search"
    /\ username = Username
    /\ InitIdle
    /\ ClassifyIdle
    /\ s_pc = "initial"
    /\ \/ s_kind = "batch" /\ s_keyword = NoKeyword
       \/ s_kind = "single" /\ s_keyword \in DOMAIN CONTROVERSIAL_KEYWORDS
    /\ s_keywords = CONTROVERSIAL_KEYWORDS
    /\ query = Query(s_kind, username, s_keywords, s_keyword)
    /\ all_tweets = <<>>
    /\ next_token = 0
    /\ s_exc = "none"
    /\ requests = <<>>

NextSearch ==
    \/ \E resp \in SearchAnswers(AllRemainings) : InitialRequest(resp)
    \/ \E resp \in SearchAnswers(AllRemainings) : PageRequest(resp)

SpecSearch == InitSearch /\ [][NextSearch]_vars

(***************************************************************************)
(* One batch search call on its own: the username and the keyword list are *)
(* the inputs; the endpoint serves at most one record a page and fails     *)
(* only with a generic error.                                              *)
(***************************************************************************)
MaxKeywords == 2     \* keywords in the list given to the batch search

Usernames == {Username, <<"x">>}

Keywords ==
    { <<"a">>, <<"B">>, <<"b", " ", "c">>, <<"\"">>, <<"'", "a">>, <<"(">>, <<"a", ")">> }

KeywordLists == SeqsUpTo(Keywords, MaxKeywords)

InitBatch ==
    /\ pc = "search"
    /\ username \in Usernames
    /\ InitIdle
    /\ ClassifyIdle
    /\ s_pc = "called"
    /\ s_kind = "batch"
    /\ s_keyword = NoKeyword
    /\ s_keywords \in KeywordLists
    /\ query = <<>>
    /\ all_tweets = <<>>
    /\ next_token = 0
    /\ s_exc = "none"
    /\ requests = <<>>

\* the statements of the batch search before its try: the query is built
BuildQuery ==
    /\ s_pc = "called"
    /\ query' = BatchQuery(username, s_keywords)
    /\ s_pc' = "initial"
    /\ UNCHANGED <<s_kind, s_keyword, s_keywords, all_tweets, next_token, s_exc, requests,
                   served, sleeps, errors>>
    /\ UNCHANGED profileVars
    /\ UNCHANGED classifyVars

BatchAnswers ==
    {resp \in SearchAnswers(AllRemainings) :
        /\ Len(resp.data) <= 1
        /\ resp.kind \in {"ok", "Error"}
        /\ resp.kind = "ok" => resp.meta.remaining = 1}

NextBatch ==
    \/ BuildQuery
    \/ \E resp \in BatchAnswers : InitialRequest(resp)
    \/ \E resp \in BatchAnswers : PageRequest(resp)

SpecBatch == InitBatch /\ [][NextBatch]_vars

(***************************************************************************)
(* One search call that keeps running: the function is a sequential        *)
(* program, so its next request is always sent, and the endpoint answers   *)
(* every request (weak fairness of the step).  The endpoint answers with   *)
(* at most MaxRateLimits rate-limit errors and hands out fewer than        *)
(* MaxPages continuation tokens; it serves at most one record a page.      *)
(***************************************************************************)
FairAnswers ==
    {resp \in SearchAnswers(AllRemainings) :
        /\ Len(resp.data) <= 1
        /\ resp.kind = "ok" => resp.meta.remaining = 1}

NextSearchFair ==
    \/ \E resp \in FairAnswers : InitialRequest(resp)
    \/ \E resp \in FairAnswers : PageRequest(resp)

SpecSearchFair == InitSearch /\ [][NextSearchFair]_vars /\ WF_vars(NextSearchFair)

(***************************************************************************)
(* ControversyAnalyzer.analyze_controversy.  A response text is a sequence *)
(* of tokens: the fence marker, the word json, white space, and whole JSON *)
(* texts (or text that is no JSON).                                        *)
(***************************************************************************)
\* the three-backquote fence marker
Fence == "[fence]"
WhiteSpace == {" ", "\n"}
JsonTexts == {"{full}", "{flag}", "{score}", "{}", "[]"}
Bodies == JsonTexts \cup {"not json"}

EmptyObject == [k \in {} |-> 0]

\* json.loads of one JSON text
JsonLoads(t) ==
    CASE t = "{full}" -> [isobj |-> TRUE,
                          obj |-> [is_controversial |-> TRUE, controversy_score |-> 7,
                                   reasons |-> <<"inflammatory">>,
                                   topics |-> <<"politics">>]]
      [] t = "{flag}" -> [isobj |-> TRUE, obj |-> [is_controversial |-> TRUE]]
      [] t = "{score}" -> [isobj |-> TRUE, obj |-> [controversy_score |-> 3]]
      [] t = "{}" -> [isobj |-> TRUE, obj |-> EmptyObject]
      [] OTHER -> [isobj |-> FALSE, obj |-> EmptyObject]

\* str.strip()
RECURSIVE LStrip(_)
LStrip(s) == IF s # <<>> /\ Head(s) \in WhiteSpace THEN LStrip(Tail(s)) ELSE s

RECURSIVE RStrip(_)
RStrip(s) ==
    IF s # <<>> /\ s[Len(s)] \in WhiteSpace THEN RStrip(SubSeq(s, 1, Len(s) - 1)) ELSE s

Strip(s) == RStrip(LStrip(s))

StartsWith(s, prefix) == Len(s) >= Len(prefix) /\ SubSeq(s, 1, Len(prefix)) = prefix
EndsWith(s, suffix) ==
    Len(s) >= Len(suffix) /\ SubSeq(s, Len(s) - Len(suffix) + 1, Len(s)) = suffix
Drop(s, n) == SubSeq(s, n + 1, Len(s))

\* mutant: the bare fence marker is removed before the marker with the word json
\* is looked for
StripFenceBareFirst(content) ==
    LET c0 == Strip(content)
        c1 == IF StartsWith(c0, <<Fence>>) THEN Drop(c0, 1) ELSE c0
        c2 == IF StartsWith(c1, <<Fence, "json">>) THEN Drop(c1, 2) ELSE c1
        c3 == IF EndsWith(c2, <<Fence>>) THEN SubSeq(c2, 1, Len(c2) - 1) ELSE c2
    IN  Strip(c3)

\* "Remove markdown code blocks if present"
StripFence(content) ==
    LET c0 == Strip(content)
        c1 == IF StartsWith(c0, <<Fence, "json">>) THEN Drop(c0, 2) ELSE c0
        c2 == IF StartsWith(c1, <<Fence>>) THEN Drop(c1, 1) ELSE c1
        c3 == IF EndsWith(c2, <<Fence>>) THEN SubSeq(c2, 1, Len(c2) - 1) ELSE c2
    IN  Strip(c3)

\* json.loads accepts exactly one JSON text
IsJson(text) == Len(text) = 1 /\ text[1] \in JsonTexts

\* dict.get(key, default)
Get(obj, key, default) == IF key \in DOMAIN obj THEN obj[key] ELSE default

NoAnswer == [kind |-> "none", null |-> TRUE, content |-> <<>>]
NoVerdict ==
    [is_controversial |-> FALSE, controversy_score |-> 0, reasons |-> <<>>, topics |-> <<>>]

ParseFailureVerdict ==
    [is_controversial |-> FALSE, controversy_score |-> 0,
     reasons |-> <<"Failed to parse AI response">>, topics |-> <<>>]

\* the verdict of the last except clause, msg being the text of the error
ErrorVerdict(msg) ==
    [is_controversial |-> FALSE, controversy_score |-> 0,
     reasons |-> <<"Analysis error: " \o msg>>, topics |-> <<>>]

\* "Ensure all required fields exist"
FieldsOf(obj) ==
    [is_controversial |-> Get(obj, "is_controversial", FALSE),
     controversy_score |-> Get(obj, "controversy_score", 0),
     reasons |-> Get(obj, "reasons", <<>>),
     topics |-> Get(obj, "topics", <<>>)]

\* the body of the try: the exception it ends with ("none": it returns value)
TryBody(resp) ==
    IF resp.kind # "ok" THEN [exc |-> resp.kind, value |-> NoVerdict]
    ELSE IF resp.null THEN [exc |-> "AttributeError", value |-> NoVerdict]
    ELSE LET text == StripFence(resp.content)
         IN  IF ~IsJson(text) THEN [exc |-> "JSONDecodeError", value |-> NoVerdict]
             ELSE IF ~JsonLoads(text[1]).isobj
                  THEN [exc |-> "AttributeError", value |-> NoVerdict]
                  ELSE [exc |-> "none", value |-> FieldsOf(JsonLoads(text[1]).obj)]

\* mutant: the JSONDecodeError clause is shadowed by the catch-all clause
HandlerWithoutParseClause(exc) ==
    CASE exc = "RateLimitError" -> "retry"
      [] OTHER -> "error default"

\* mutant: there is no catch-all clause
HandlerWithoutCatchAll(exc) ==
    CASE exc = "JSONDecodeError" -> "parse default"
      [] exc = "RateLimitError" -> "retry"
      [] OTHER -> "raise"

\* the except clauses, in their order
Handler(exc) ==
    CASE exc = "JSONDecodeError" -> "parse default"
      [] exc = "RateLimitError" -> "retry"
      [] OTHER -> "error default"

Completion(content) == [kind |-> "ok", null |-> FALSE, content |-> content]
NullCompletion == [kind |-> "ok", null |-> TRUE, content |-> <<>>]
ClassifyError(e) == [kind |-> e, null |-> TRUE, content |-> <<>>]

\* what the classification service may answer to the next request
ClassifyAnswers(Contents) ==
    {Completion(c) : c \in Contents}
        \cup {NullCompletion, ClassifyError("APIError")}
        \cup (IF errors < MaxRateLimits THEN {ClassifyError("RateLimitError")} ELSE {})

\* the analyze_controversy call is over and its locals are gone
LeaveClassify ==
    /\ c_pc' = "idle"
    /\ c_text' = <<>>
    /\ c_result' = NoVerdict
    /\ c_requests' = 0
    /\ c_last' = NoAnswer

\* entry of analyze_controversy
EnterClassify(text) ==
    /\ c_pc' = "request"
    /\ c_text' = text
    /\ c_requests' = 0
    /\ UNCHANGED <<c_result, c_last>>

\* one chat.completions.create request and everything after it; the retry is
\* the recursive call, whose result is returned unchanged
ClassifyRequest(resp) ==
    LET body == TryBody(resp)
        handled == Handler(body.exc)
    IN  /\ c_pc = "request"
        /\ c_requests' = c_requests + 1
        /\ c_last' = resp
        /\ errors' = errors + (IF resp.kind = "RateLimitError" THEN 1 ELSE 0)
        /\ IF body.exc = "none"
           THEN /\ c_result' = body.value
                /\ c_pc' = "returned"
                /\ UNCHANGED sleeps
           ELSE IF handled = "retry"
           THEN /\ sleeps' = sleeps + 1
                /\ UNCHANGED <<c_pc, c_result>>
           ELSE IF handled = "parse default"
           THEN /\ c_result' = ParseFailureVerdict
                /\ c_pc' = "returned"
                /\ UNCHANGED sleeps
           ELSE IF handled = "error default"
           THEN /\ c_result' = ErrorVerdict(body.exc)
                /\ c_pc' = "returned"
                /\ UNCHANGED sleeps
           ELSE /\ c_pc' = "raised"
                /\ UNCHANGED <<c_result, sleeps>>
        /\ UNCHANGED c_text
        /\ UNCHANGED profileVars
        /\ UNCHANGED searchVars

(***************************************************************************)
(* One analyze_controversy call on its own: the text is the input, the     *)
(* service answers with fenced and unfenced texts.                         *)
(***************************************************************************)
Prefixes == {<<>>, <<Fence, "json", "\n">>, <<Fence, "\n">>, <<" ">>}
Suffixes == {<<>>, <<"\n", Fence>>, <<"\n">>}
AllContents == {p \o <<b>> \o q : p \in Prefixes, b \in Bodies, q \in Suffixes} \cup {<<>>}

InitClassify ==
    /\ pc = "classify"
    /\ username = Username
    /\ InitIdle
    /\ SearchIdle
    /\ c_pc = "request"
    /\ c_text \in {t.text : t \in RawTweets}
    /\ c_result = NoVerdict
    /\ c_requests = 0
    /\ c_last = NoAnswer

NextClassify == \E resp \in ClassifyAnswers(AllContents) : ClassifyRequest(resp)

SpecClassify == InitClassify /\ [][NextClassify]_vars

(***************************************************************************)
(* TwitterSearcher.validate_user and analyze_profile.                      *)
(***************************************************************************)
\* the answers of the user lookup: a record, no record, or an error
LookupAnswers == {"user", "no data", "NotFound", "Error"}

\* mutant: the record of the lookup response is not tested against None
ValidateUserAnyResponse(answer) == answer \in {"user", "no data"}

\* validate_user
ValidateUser(answer) == answer = "user"

Unknown == <<"u", "n", "k", "n", "o", "w", "n">>

\* tweet.get('matched_keywords', [])
MatchedKeywords(tweet) == tweet.matched_keywords

\* the dictionary built for one keyword of one tweet
Row(tweet, keyword, matched_keywords, analysis) ==
    [tweet_id |-> tweet.id, text |-> tweet.text, created_at |-> tweet.created_at,
     keyword |-> keyword, matched_keywords |-> matched_keywords,
     public_metrics |-> tweet.public_metrics, analysis |-> analysis]

\* "create result for each matched keyword"
KeywordRows(tweet, analysis) ==
    [i \in 1..Len(MatchedKeywords(tweet)) |->
        Row(tweet, MatchedKeywords(tweet)[i], MatchedKeywords(tweet), analysis)]

\* mutant: a tweet without matched keywords gets no row
UnknownRowsDropped(tweet, analysis) == <<>>

\* "if no keywords matched (shouldn't happen, but handle gracefully)"
UnknownRows(tweet, analysis) ==
    IF MatchedKeywords(tweet) = <<>> THEN <<Row(tweet, Unknown, <<>>, analysis)>> ELSE <<>>

\* mutant: one flagged entry per matched keyword instead of one per tweet
ControversialRowsPerKeyword(tweet, analysis) ==
    IF analysis.is_controversial
    THEN [i \in 1..Len(MatchedKeywords(tweet)) |->
             Row(tweet, MatchedKeywords(tweet)[i], MatchedKeywords(tweet), analysis)]
    ELSE <<>>

\* mutant: the flagged entry carries the last matched keyword
ControversialRowsLastKeyword(tweet, analysis) ==
    IF analysis.is_controversial
    THEN <<Row(tweet,
               IF MatchedKeywords(tweet) # <<>>
               THEN MatchedKeywords(tweet)[Len(MatchedKeywords(tweet))] ELSE Unknown,
               MatchedKeywords(tweet), analysis)>>
    ELSE <<>>

\* "add to controversial tweets only once per tweet (deduplicated)"
ControversialRows(tweet, analysis) ==
    IF analysis.is_controversial
    THEN <<Row(tweet,
               IF MatchedKeywords(tweet) # <<>> THEN MatchedKeywords(tweet)[1] ELSE Unknown,
               MatchedKeywords(tweet), analysis)>>
    ELSE <<>>

\* mutant: the guard against a second analysis is missing
AlreadyAnalyzedNever(tweet_id) == FALSE

\* "skip if already analyzed"
AlreadyAnalyzed(tweet_id) == tweet_id \in analyzed_tweet_ids

\* mutant: the fallback loop does not tag the tweets of a keyword
TaggedNever(keyword_tweets, keyword) == keyword_tweets

\* the fallback loop: "add matched_keywords field for consistency"
Tagged(keyword_tweets, keyword) ==
    [i \in 1..Len(keyword_tweets) |->
        [keyword_tweets[i] EXCEPT !.matched_keywords = <<keyword>>]]

\* mutant: the summary counts the tweets that are not flagged from the number
\* of tweets found
ReportCountingFound ==
    [returned |-> TRUE,
     keywords_searched |-> CONTROVERSIAL_KEYWORDS,
     total_tweets_found |-> total_tweets_found,
     controversial_count |-> Len(controversial_tweets),
     tweets |-> all_results,
     controversial_tweets |-> controversial_tweets,
     summary |-> [total_analyzed |-> Len(all_results),
                  controversial |-> Len(controversial_tweets),
                  non_controversial |-> total_tweets_found - Len(controversial_tweets)]]

\* the dictionary analyze_profile returns
Report ==
    [returned |-> TRUE,
     keywords_searched |-> CONTROVERSIAL_KEYWORDS,
     total_tweets_found |-> total_tweets_found,
     controversial_count |-> Len(controversial_tweets),
     tweets |-> all_results,
     controversial_tweets |-> controversial_tweets,
     summary |-> [total_analyzed |-> Len(all_results),
                  controversial |-> Len(controversial_tweets),
                  non_controversial |-> Len(all_results) - Len(controversial_tweets)]]

\* validate the user; sys.exit(1), or the call of the batch search
Validate(answer) ==
    /\ pc = "validate"
    /\ looked_up' = Append(looked_up, answer)
    /\ IF ValidateUser(answer)
       THEN /\ pc' = "batch"
            /\ EnterSearch("batch", NoKeyword)
       ELSE /\ pc' = "exited"
            /\ UNCHANGED <<s_pc, s_kind, s_keyword, s_keywords, query, all_tweets,
                           next_token, s_exc, requests>>
    /\ UNCHANGED <<username, tweets, total_tweets_found, kw, idx, analyzed_tweet_ids, all_results,
                   controversial_tweets, report, calls, sleeps, served, errors>>
    /\ UNCHANGED classifyVars

\* the batch search returned its list
BatchReturned ==
    /\ pc = "batch"
    /\ s_pc = "returned"
    /\ tweets' = all_tweets
    /\ total_tweets_found' = Len(all_tweets)
    /\ idx' = 1
    /\ pc' = "analyze"
    /\ LeaveSearch
    /\ UNCHANGED <<kw, analyzed_tweet_ids, all_results, controversial_tweets, report, calls,
                   sleeps, served, errors,
                   username, looked_up>>
    /\ UNCHANGED classifyVars

\* except tweepy.BadRequest: the fallback loop starts with the first keyword
BatchRaised ==
    /\ pc = "batch"
    /\ s_pc = "raised"
    /\ s_exc = "BadRequest"
    /\ tweets' = <<>>
    /\ kw' = 1
    /\ pc' = "fallback"
    /\ EnterSearch("single", 1)
    /\ UNCHANGED <<total_tweets_found, idx, analyzed_tweet_ids, all_results,
                   controversial_tweets, report, calls, sleeps, served, errors,
                   username, looked_up>>
    /\ UNCHANGED classifyVars

\* one search of the fallback loop returned: tag, extend, next keyword or loop end
FallbackReturned ==
    /\ pc = "fallback"
    /\ s_pc = "returned"
    /\ tweets' = tweets \o Tagged(all_tweets, CONTROVERSIAL_KEYWORDS[kw])
    /\ IF kw < Len(CONTROVERSIAL_KEYWORDS)
       THEN /\ kw' = kw + 1
            /\ EnterSearch("single", kw + 1)
            /\ UNCHANGED <<pc, total_tweets_found, idx>>
       ELSE /\ total_tweets_found' = Len(tweets')
            /\ idx' = 1
            /\ pc' = "analyze"
            /\ LeaveSearch
            /\ UNCHANGED kw
    /\ UNCHANGED <<analyzed_tweet_ids, all_results, controversial_tweets, report, calls,
                   sleeps, served, errors,
                   username, looked_up>>
    /\ UNCHANGED classifyVars

\* an iteration of the analysis loop that hits the continue
AnalyzeSkip ==
    /\ pc = "analyze"
    /\ idx <= Len(tweets)
    /\ AlreadyAnalyzed(tweets[idx].id)
    /\ idx' = idx + 1
    /\ UNCHANGED <<pc, tweets, total_tweets_found, kw, analyzed_tweet_ids, all_results,
                   controversial_tweets, report, calls, sleeps, served, errors,
                   username, looked_up>>
    /\ UNCHANGED searchVars
    /\ UNCHANGED classifyVars

\* an iteration of the analysis loop up to the call of analyze_controversy
AnalyzeCall ==
    /\ pc = "analyze"
    /\ idx <= Len(tweets)
    /\ ~AlreadyAnalyzed(tweets[idx].id)
    /\ analyzed_tweet_ids' = analyzed_tweet_ids \cup {tweets[idx].id}
    /\ calls' = Append(calls, [id |-> tweets[idx].id, text |-> tweets[idx].text])
    /\ EnterClassify(tweets[idx].text)
    /\ pc' = "classify"
    /\ UNCHANGED <<tweets, total_tweets_found, kw, idx, all_results, controversial_tweets,
                   report, sleeps, served, errors,
                   username, looked_up>>
    /\ UNCHANGED searchVars

\* the rest of the iteration, once analyze_controversy returned
AnalyzeReturned ==
    /\ pc = "classify"
    /\ c_pc = "returned"
    /\ all_results' = all_results \o KeywordRows(tweets[idx], c_result)
                                  \o UnknownRows(tweets[idx], c_result)
    /\ controversial_tweets' = controversial_tweets \o ControversialRows(tweets[idx], c_result)
    /\ idx' = idx + 1
    /\ pc' = "analyze"
    /\ LeaveClassify
    /\ UNCHANGED <<tweets, total_tweets_found, kw, analyzed_tweet_ids, report, calls,
                   sleeps, served, errors,
                   username, looked_up>>
    /\ UNCHANGED searchVars

\* the analysis loop is over: the return statement
Return ==
    /\ pc = "analyze"
    /\ idx > Len(tweets)
    /\ report' = Report
    /\ pc' = "done"
    /\ UNCHANGED <<tweets, total_tweets_found, kw, idx, analyzed_tweet_ids, all_results,
                   controversial_tweets, calls, sleeps, served, errors,
                   username, looked_up>>
    /\ UNCHANGED searchVars
    /\ UNCHANGED classifyVars

(***************************************************************************)
(* A run of analyze_profile.                                               *)
(***************************************************************************)
ProfileRemainings == {1}
ProfileContents == {<<"{full}">>, <<"{score}">>, <<"not json">>}

Init ==
    /\ pc = "validate"
    /\ username = Username
    /\ InitIdle
    /\ SearchIdle
    /\ ClassifyIdle

Next ==
    \/ \E answer \in LookupAnswers : Validate(answer)
    \/ \E resp \in SearchAnswers(ProfileRemainings) : InitialRequest(resp)
    \/ \E resp \in SearchAnswers(ProfileRemainings) : PageRequest(resp)
    \/ BatchReturned
    \/ BatchRaised
    \/ FallbackReturned
    \/ AnalyzeSkip
    \/ AnalyzeCall
    \/ \E resp \in ClassifyAnswers(ProfileContents) : ClassifyRequest(resp)
    \/ AnalyzeReturned
    \/ Return

Spec == Init /\ [][Next]_vars

(***************************************************************************)
(* Properties of analyze_profile.                                          *)
(***************************************************************************)
Ids(rows) == {rows[i].tweet_id : i \in DOMAIN rows}

\* number of rows of the list that belong to the tweet
RowCount(rows, tweet_id) == Cardinality({i \in DOMAIN rows : rows[i].tweet_id = tweet_id})

IsFirstOccurrence(k) == \A j \in 1..(k - 1) : tweets[j].id # tweets[k].id

\* C1: analyze_controversy is called once per distinct tweet id of the searched
\* list, with the text of the first occurrence of that id, and never again for
\* an id already analyzed; at the return every id of the list has been analyzed.
C1_ClassifiedOncePerId ==
    /\ \A i, j \in DOMAIN calls : calls[i].id = calls[j].id => i = j
    /\ \A i \in DOMAIN calls :
          \E k \in DOMAIN tweets : /\ tweets[k].id = calls[i].id
                                   /\ IsFirstOccurrence(k)
                                   /\ calls[i].text = tweets[k].text
    /\ pc = "done" =>
          {calls[i].id : i \in DOMAIN calls} = {tweets[k].id : k \in DOMAIN tweets}

\* a finished run whose list held the same id twice with different texts
C1_Witness ==
    /\ pc = "done"
    /\ \E j, k \in DOMAIN tweets : /\ j < k
                                   /\ tweets[j].id = tweets[k].id
                                   /\ tweets[j].text # tweets[k].text
    /\ Len(tweets) = 2
    /\ Len(calls) = 1

\* ids of the full list whose verdict is flagged
FlaggedIds(rows) == {rows[i].tweet_id : i \in {j \in DOMAIN rows : rows[j].analysis.is_controversial}}

\* C2 as stated: controversial_count is the number of distinct flagged tweets,
\* and a flagged tweet with n matched keywords has n rows in the full list.
C2_RowsEqualMatchedKeywords ==
    pc = "done" =>
        /\ report.controversial_count = Cardinality(FlaggedIds(report.tweets))
        /\ \A i \in DOMAIN report.controversial_tweets :
              RowCount(report.tweets, report.controversial_tweets[i].tweet_id)
                  = Len(report.controversial_tweets[i].matched_keywords)

\* C2 amended: controversial_count is the number of distinct flagged tweets; a
\* flagged tweet whose matched-keyword list has n entries adds 1 to the count
\* and n rows to the full list when n >= 1, and one row when n = 0.
C2_FlaggedCountedOnce ==
    pc = "done" =>
        /\ report.controversial_count = Cardinality(FlaggedIds(report.tweets))
        /\ report.controversial_count = Len(report.controversial_tweets)
        /\ \A i \in DOMAIN report.controversial_tweets :
              LET e == report.controversial_tweets[i]
              IN  /\ RowCount(report.controversial_tweets, e.tweet_id) = 1
                  /\ RowCount(report.tweets, e.tweet_id)
                         = (IF Len(e.matched_keywords) >= 1 THEN Len(e.matched_keywords) ELSE 1)

\* a report with a flagged tweet that matched two keywords
C2_Witness ==
    /\ pc = "done"
    /\ \E i \in DOMAIN report.controversial_tweets :
          /\ Len(report.controversial_tweets[i].matched_keywords) = 2
          /\ RowCount(report.tweets, report.controversial_tweets[i].tweet_id) = 2
    /\ report.controversial_count = 1

\* C3: every tweet id of the flagged list of the report is the id of at least
\* one row of the full list, tweets without matched keywords included.
C3_FlaggedInFullList ==
    /\ Ids(controversial_tweets) \subseteq Ids(all_results)
    /\ pc = "done" => Ids(report.controversial_tweets) \subseteq Ids(report.tweets)

\* a report with a flagged tweet that matched no keyword
C3_Witness ==
    /\ pc = "done"
    /\ \E i \in DOMAIN report.controversial_tweets :
          report.controversial_tweets[i].matched_keywords = <<>>

\* C4 as stated: a first occurrence with k >= 1 matched keywords has k rows, one
\* per keyword, all with one verdict; and on the fallback path every keyword
\* match a search returned has its row, also when two searches return one id.
C4_RowPerKeywordMatch ==
    pc = "done" =>
        /\ \A k \in DOMAIN tweets :
              IsFirstOccurrence(k) /\ tweets[k].matched_keywords # <<>> =>
                  /\ RowCount(report.tweets, tweets[k].id) = Len(tweets[k].matched_keywords)
                  /\ \A i, j \in DOMAIN report.tweets :
                        report.tweets[i].tweet_id = report.tweets[j].tweet_id
                            => report.tweets[i].analysis = report.tweets[j].analysis
        /\ kw > 0 =>
              \A k \in DOMAIN tweets :
                  \E i \in DOMAIN report.tweets :
                      /\ report.tweets[i].tweet_id = tweets[k].id
                      /\ <<report.tweets[i].keyword>> = tweets[k].matched_keywords

(***************************************************************************)
(* Properties of the search client.                                        *)
(***************************************************************************)
\* the continuation token a response carries (0: none)
TokenOf(meta) == IF meta.null THEN 0 ELSE meta.next_token

\* the normalised items of the pages of a request log, in the order received
RECURSIVE ItemsOfPages(_)
ItemsOfPages(log) ==
    IF log = <<>> THEN <<>>
    ELSE PageItems(Head(log).data, s_kind, s_keyword) \o ItemsOfPages(Tail(log))

ErrorFree == \A i \in DOMAIN requests : requests[i].kind = "ok"

\* C5 as stated: every request answered with a rate-limit error, the initial
\* one included, is followed by a sleep and a retry carrying the same token, and
\* the call returns the items of the pages the endpoint served.
C5_RateLimitedRequestRetried ==
    /\ \A i \in DOMAIN requests :
          requests[i].kind = "TooManyRequests" =>
              /\ sleeps >= 1
              /\ IF i < Len(requests)
                 THEN requests[i + 1].token = requests[i].token
                 ELSE s_pc \in {"initial", "paging"} /\ next_token = requests[i].token
    /\ s_pc = "returned" => all_tweets = ItemsOfPages(requests)

\* C6: in a call without errors the first request carries no token, every later
\* request carries the token of the response before it, the call is over exactly
\* when a response carries no token, and all_tweets is the concatenation of the
\* normalised items of the pages in the order received.
C6_PaginationFollowsTokens ==
    ErrorFree /\ requests # <<>> =>
        /\ requests[1].token = 0
        /\ \A i \in 2..Len(requests) :
              /\ TokenOf(requests[i - 1].meta) # 0
              /\ requests[i].token = TokenOf(requests[i - 1].meta)
        /\ (s_pc = "returned") = (TokenOf(requests[Len(requests)].meta) = 0)
        /\ (s_pc = "paging") = (TokenOf(requests[Len(requests)].meta) # 0)
        /\ s_pc = "paging" => next_token = TokenOf(requests[Len(requests)].meta)
        /\ all_tweets = ItemsOfPages(requests)

\* a returned call of two error-free pages with records on both
C6_Witness ==
    /\ s_pc = "returned"
    /\ ErrorFree
    /\ Len(requests) = 2
    /\ requests[1].data # <<>>
    /\ requests[2].data # <<>>
    /\ Len(all_tweets) = Len(requests[1].data) + Len(requests[2].data)

(***************************************************************************)
(* Properties of analyze_controversy.                                      *)
(***************************************************************************)
\* C7 as stated: one call sends at most two requests to the service.
C7_AtMostTwoRequests == c_requests <= 2

VerdictFields == {"is_controversial", "controversy_score", "reasons", "topics"}

\* the service answered with a text
Answered == c_last.kind = "ok" /\ ~c_last.null

\* C8: a response text that is no JSON after fence stripping gives exactly the
\* verdict (false, 0, ["Failed to parse AI response"], []).
C8_ParseFailureDefault ==
    c_pc = "returned" /\ Answered /\ ~IsJson(StripFence(c_last.content)) =>
        c_result = [is_controversial |-> FALSE, controversy_score |-> 0,
                    reasons |-> <<"Failed to parse AI response">>, topics |-> <<>>]

\* a fenced text that is no JSON has been answered with the default verdict
C8_Witness ==
    /\ c_pc = "returned"
    /\ c_last = Completion(<<Fence, "json", "\n", "not json", "\n", Fence>>)
    /\ c_result.reasons = <<"Failed to parse AI response">>

DefaultOf(field) ==
    CASE field = "is_controversial" -> FALSE
      [] field = "controversy_score" -> 0
      [] OTHER -> <<>>

\* the service answered with the text of a JSON object
AnsweredObject ==
    /\ Answered
    /\ IsJson(StripFence(c_last.content))
    /\ JsonLoads(StripFence(c_last.content)[1]).isobj

\* C9: whatever the service answers other than a rate-limit error, the call
\* does not raise and returns a verdict of exactly the four fields; a field
\* missing in the JSON object has its default (false, 0, [], []), a field
\* present has the value of the object, and on every error the flag is false.
C9_AlwaysAVerdict ==
    /\ c_pc # "raised"
    /\ c_last.kind \notin {"none", "RateLimitError"} =>
          /\ c_pc = "returned"
          /\ DOMAIN c_result = VerdictFields
          /\ IF AnsweredObject
             THEN LET obj == JsonLoads(StripFence(c_last.content)[1]).obj
                  IN  \A f \in VerdictFields :
                          c_result[f] = (IF f \in DOMAIN obj THEN obj[f] ELSE DefaultOf(f))
             ELSE c_result.is_controversial = FALSE

\* an object with the score alone has been answered with the other fields defaulted
C9_Witness ==
    /\ c_pc = "returned"
    /\ c_last = Completion(<<"{score}">>)
    /\ c_result = [is_controversial |-> FALSE, controversy_score |-> 3,
                   reasons |-> <<>>, topics |-> <<>>]

(***************************************************************************)
(* Properties of the batch search inside analyze_profile.                  *)
(***************************************************************************)
BadRequestAt(i) == i \in DOMAIN requests /\ requests[i].kind = "BadRequest"

\* C10 as stated: a BadRequest answered to any request of the batch search
\* leaves the batch search as an exception.
C10_AnyBadRequestPropagates ==
    pc = "batch" /\ (\E i \in DOMAIN requests : BadRequestAt(i)) =>
        s_pc = "raised" /\ s_exc = "BadRequest"

\* C10 amended: a BadRequest answered to the initial request of the batch search
\* leaves it as an exception, and analyze_profile then runs the per-keyword
\* fallback, starting with the first keyword, without returning a report; a
\* BadRequest answered to a continuation request ends the pagination, the batch
\* search returns the items accumulated so far and no fallback runs.
C10_InitialBadRequestFallsBack ==
    /\ [](pc = "batch" /\ BadRequestAt(1) => s_pc = "raised" /\ s_exc = "BadRequest")
    /\ [](pc = "batch" /\ (\E i \in 2..Len(requests) : BadRequestAt(i)) =>
              s_pc = "returned" /\ all_tweets = ItemsOfPages(requests))
    /\ [][s_pc = "raised" =>
              /\ pc' = "fallback"
              /\ s_pc' = "initial" /\ s_kind' = "single" /\ s_keyword' = 1
              /\ report' = NoReport]_vars
    /\ [][pc = "batch" /\ s_pc = "returned" => pc' = "analyze" /\ tweets' = all_tweets]_vars

\* a run that fell back after a BadRequest and returned a report with tweets
C10_Witness ==
    /\ pc = "done"
    /\ kw = Len(CONTROVERSIAL_KEYWORDS)
    /\ report.returned
    /\ report.total_tweets_found > 0

(***************************************************************************)
(* Properties of the validation step.                                      *)
(***************************************************************************)
\* nothing was asked of the search endpoint or of the classification service,
\* and nothing was returned
NothingRequested ==
    /\ s_pc = "idle"
    /\ requests = <<>>
    /\ served = 0
    /\ c_pc = "idle"
    /\ c_requests = 0
    /\ calls = <<>>
    /\ errors = 0
    /\ sleeps = 0
    /\ report = NoReport

\* C11: analyze_profile looks the account up exactly once, before any search
\* request; when the lookup does not yield an account (not found, no record,
\* or an error) the run exits at once: no search request, no classification
\* request, no report.
C11_ValidatedOnceOrExited ==
    /\ Len(looked_up) <= 1
    /\ (pc = "validate") <=> (looked_up = <<>>)
    /\ looked_up = <<>> => NothingRequested
    /\ (looked_up # <<>> /\ looked_up[1] # "user") => (pc = "exited" /\ NothingRequested)
    /\ pc = "exited" => looked_up[1] # "user"

\* a run that exited because the lookup response carried no record
C11_Witness ==
    /\ pc = "exited"
    /\ looked_up = <<"no data">>

(***************************************************************************)
(* Properties of the error handling of a whole run.                        *)
(***************************************************************************)
\* a step of the run after the lookup, the upstream services answering with
\* answers they can always give
StepAfterLookup ==
    \/ InitialRequest(ErrResponse("Error"))
    \/ PageRequest(ErrResponse("Error"))
    \/ BatchReturned
    \/ BatchRaised
    \/ FallbackReturned
    \/ AnalyzeSkip
    \/ AnalyzeCall
    \/ ClassifyRequest(NullCompletion)
    \/ AnalyzeReturned
    \/ Return

\* C12: once the lookup succeeded, no error of the search endpoint or of the
\* classification service ends the run: the only exception that leaves a search
\* call is the BadRequest of the batch search, which analyze_profile catches;
\* analyze_controversy never raises; the run never exits, it can always take its
\* next step until it has returned, and it returns a report.
C12_NoUpstreamErrorAborts ==
    /\ s_pc = "raised" => (pc = "batch" /\ s_kind = "batch" /\ s_exc = "BadRequest")
    /\ c_pc # "raised"
    /\ looked_up = <<"user">> => pc # "exited"
    /\ (looked_up = <<"user">> /\ pc # "done") => ENABLED StepAfterLookup
    /\ pc = "done" => report.returned

\* a run that returned its report after a BadRequest of the batch search, a
\* rate-limit error and an error of the classification service
C12_Witness ==
    /\ pc = "done"
    /\ report.returned
    /\ kw > 0
    /\ errors > 0
    /\ \E i \in DOMAIN report.tweets :
          report.tweets[i].analysis.reasons = <<"Analysis error: APIError">>

(***************************************************************************)
(* Properties of the batch query and of the keyword matching.              *)
(***************************************************************************)
NeedsQuotes(keyword) ==
    \E i \in DOMAIN keyword : keyword[i] \in {" ", "\"", "'", "(", ")"}

QuotedOrBare(keyword) ==
    IF NeedsQuotes(keyword) THEN <<"\"">> \o keyword \o <<"\"">> ELSE keyword

\* the first n keywords, quoted or bare, with OR between neighbours
RECURSIVE OrList(_, _)
OrList(keywords, n) ==
    IF n = 0 THEN <<>>
    ELSE IF n = 1 THEN QuotedOrBare(keywords[1])
    ELSE OrList(keywords, n - 1) \o <<" ", "O", "R", " ">> \o QuotedOrBare(keywords[n])

\* C13: the batch query is from:<username>, a space, and in parentheses the
\* keywords in list order joined by " OR ", a keyword being wrapped in double
\* quotes exactly when it contains a space or one of the characters " ' ( );
\* every request of the call carries that query.
C13_BatchQueryForm ==
    s_pc # "called" =>
        /\ query = <<"f", "r", "o", "m", ":">> \o username \o <<" ", "(">>
                        \o OrList(s_keywords, Len(s_keywords)) \o <<")">>
        /\ \A i \in DOMAIN requests : requests[i].query = query

\* a request went out for a list of a keyword that needs quotes and one that does not
C13_Witness ==
    /\ s_kind = "batch"
    /\ s_keywords = << <<"a", ")">>, <<"B">> >>
    /\ requests # <<>>
    /\ query = <<"f", "r", "o", "m", ":", "x", " ", "(", "\"", "a", ")", "\"",
                 " ", "O", "R", " ", "B", ")">>

\* the keyword occurs in the text, letters compared without regard to case
OccursIn(keyword, text) ==
    \E offset \in 0..(Len(text) - Len(keyword)) :
        \A j \in DOMAIN keyword : LowerChar(text[offset + j]) = LowerChar(keyword[j])

\* the keywords of the list that occur in the text: same order, duplicates kept
OccurringKeywords(keywords, text) ==
    SelectSeq(keywords, LAMBDA keyword : OccursIn(keyword, text))

\* C14: the matched-keyword list of every item of the batch search, whichever
\* page brought it, is the subsequence of the keyword list made of the keywords
\* that occur in the item's text as a case-insensitive substring.
C14_MatchedIsSubsequence ==
    s_kind = "batch" =>
        \A i \in DOMAIN all_tweets :
            all_tweets[i].matched_keywords = OccurringKeywords(s_keywords, all_tweets[i].text)

\* an item of a continuation page matched a keyword given twice, in another case
\* than the text's; the item of the first page matched nothing
C14_Witness ==
    /\ s_kind = "batch"
    /\ Len(requests) = 2
    /\ Len(all_tweets) = 2
    /\ Len(requests[2].data) = 1
    /\ all_tweets[1].matched_keywords = <<>>
    /\ all_tweets[2].text = <<"A", " ", "b", " ", "c">>
    /\ all_tweets[2].matched_keywords = << <<"B">>, <<"B">> >>

(***************************************************************************)
(* Properties of the fence stripping.                                      *)
(***************************************************************************)
ObjectTexts == {t \in JsonTexts : JsonLoads(t).isobj}

\* the verdict of the JSON object text: its fields, the missing ones defaulted
VerdictOfObject(t) ==
    [f \in VerdictFields |->
        IF f \in DOMAIN JsonLoads(t).obj THEN JsonLoads(t).obj[f] ELSE DefaultOf(f)]

\* the text between an opening fence line and a closing fence line
Fenced(opening, t) == opening \o <<"\n", t, "\n", Fence>>

\* C15: a JSON object text wrapped in a code fence (the fence marker with or
\* without the word json, a newline, the text, a newline, the fence marker)
\* is answered with the same verdict as the text alone.
C15_FenceIsTransparent ==
    \A t \in ObjectTexts :
        /\ (c_pc = "returned" /\ c_last = Completion(<<t>>)) => c_result = VerdictOfObject(t)
        /\ \A opening \in {<<Fence, "json">>, <<Fence>>} :
              (c_pc = "returned" /\ c_last = Completion(Fenced(opening, t)))
                  => c_result = VerdictOfObject(t)

\* an object text in a fence opened with the word json has been answered with
\* the verdict of the object
C15_Witness ==
    /\ c_pc = "returned"
    /\ c_last = Completion(<<Fence, "json", "\n", "{flag}", "\n", Fence>>)
    /\ c_result = [is_controversial |-> TRUE, controversy_score |-> 0,
                   reasons |-> <<>>, topics |-> <<>>]

(***************************************************************************)
(* Properties of one search call: quota, errors, normalisation.            *)
(***************************************************************************)
\* the pages of the call whose metadata reports a remaining quota of zero
ZeroQuotaPages ==
    {i \in DOMAIN requests : /\ requests[i].kind = "ok"
                             /\ ~requests[i].meta.null
                             /\ requests[i].meta.remaining = 0}

RateLimited == {i \in DOMAIN requests : requests[i].kind = "TooManyRequests"}

\* C16 as stated: besides the sleep after each rate-limit error, the call
\* sleeps once after each page, the first included, whose metadata reports a
\* remaining quota of zero, and after no other page.
C16_SleepsIffZeroRemaining ==
    sleeps = Cardinality(ZeroQuotaPages) + Cardinality(RateLimited)

\* the errors the search function handles by giving up on the query
GivesUpOn(kind, e) ==
    /\ e \in {"BadRequest", "NotFound", "Error"}
    /\ ~(kind = "batch" /\ e = "BadRequest")

\* C17: a request that fails with an error other than the rate limit and (in
\* the batch search) other than BadRequest is the last request of the call; the
\* call returns, without raising, exactly the items of the pages received
\* before the error, in their order.
C17_OtherErrorEndsTheQuery ==
    \A i \in DOMAIN requests :
        GivesUpOn(s_kind, requests[i].kind) =>
            /\ i = Len(requests)
            /\ s_pc = "returned"
            /\ s_exc = "none"
            /\ all_tweets = ItemsOfPages(SubSeq(requests, 1, i - 1))

\* the second request failed after a first page with items
C17_Witness ==
    /\ s_pc = "returned"
    /\ Len(requests) = 2
    /\ requests[1].kind = "ok"
    /\ requests[2].kind = "NotFound"
    /\ Len(all_tweets) = 2

(***************************************************************************)
(* Properties of the flagged list and of the fallback search.              *)
(***************************************************************************)
\* the keyword a flagged entry is to carry for a row of the full list
PrimaryKeyword(row) ==
    IF row.matched_keywords # <<>> THEN row.matched_keywords[1]
    ELSE <<"u", "n", "k", "n", "o", "w", "n">>

\* C18: every flagged tweet has exactly one entry in the flagged list, whose
\* keyword is the first of the tweet's matched keywords, or "unknown" when the
\* tweet has none; a tweet that is not flagged has no entry.
C18_OneFlaggedEntryPerTweet ==
    /\ \A i, j \in DOMAIN controversial_tweets :
          controversial_tweets[i].tweet_id = controversial_tweets[j].tweet_id => i = j
    /\ \A i \in DOMAIN all_results :
          IF all_results[i].analysis.is_controversial
          THEN \E j \in DOMAIN controversial_tweets :
                   /\ controversial_tweets[j].tweet_id = all_results[i].tweet_id
                   /\ controversial_tweets[j].keyword = PrimaryKeyword(all_results[i])
                   /\ controversial_tweets[j].analysis = all_results[i].analysis
          ELSE \A j \in DOMAIN controversial_tweets :
                   controversial_tweets[j].tweet_id # all_results[i].tweet_id
    /\ \A j \in DOMAIN controversial_tweets :
          \E i \in DOMAIN all_results :
              controversial_tweets[j].tweet_id = all_results[i].tweet_id

\* a finished run with a flagged tweet of two matched keywords and a tweet
\* that is not flagged
C18_Witness ==
    /\ pc = "done"
    /\ Len(controversial_tweets) = 1
    /\ Len(controversial_tweets[1].matched_keywords) = 2
    /\ controversial_tweets[1].keyword = controversial_tweets[1].matched_keywords[1]
    /\ \E i \in DOMAIN all_results : ~all_results[i].analysis.is_controversial

\* a search call starts with this step
SearchEntered == s_pc # "initial" /\ s_pc' = "initial"

\* C19: the per-keyword fallback starts only when the batch search has raised
\* BadRequest; it then searches the keywords one after the other in list order,
\* each once, with the query of that keyword, and the analysis starts only after
\* the last keyword; every item of a fallback search enters the list with a
\* matched-keyword list holding exactly the keyword of that search.
C19_FallbackPerKeyword ==
    /\ [][(pc # "fallback" /\ pc' = "fallback")
             => (pc = "batch" /\ s_kind = "batch" /\ s_pc = "raised" /\ s_exc = "BadRequest")]_vars
    /\ [][(SearchEntered /\ pc' # "batch")
             => (pc' = "fallback" /\ s_kind' = "single" /\ kw' = kw + 1 /\ s_keyword' = kw')]_vars
    /\ [][kw' # kw => SearchEntered]_vars
    /\ [](pc = "fallback" =>
             /\ kw \in DOMAIN CONTROVERSIAL_KEYWORDS
             /\ s_kind = "single"
             /\ s_keyword = kw
             /\ \A i \in DOMAIN requests :
                   requests[i].query = <<"f", "r", "o", "m", ":">> \o username \o <<" ">>
                                           \o CONTROVERSIAL_KEYWORDS[kw])
    /\ []((pc \in {"analyze", "classify", "done"}) => kw \in {0, Len(CONTROVERSIAL_KEYWORDS)})
    /\ [][(pc = "fallback" /\ s_pc = "returned") =>
             /\ Len(tweets') = Len(tweets) + Len(all_tweets)
             /\ SubSeq(tweets', 1, Len(tweets)) = tweets
             /\ \A i \in DOMAIN all_tweets :
                   /\ tweets'[Len(tweets) + i].id = all_tweets[i].id
                   /\ tweets'[Len(tweets) + i].text = all_tweets[i].text
                   /\ tweets'[Len(tweets) + i].matched_keywords
                          = <<CONTROVERSIAL_KEYWORDS[kw]>>]_vars

\* a finished fallback whose list holds an item of each keyword
C19_Witness ==
    /\ pc = "done"
    /\ kw = Len(CONTROVERSIAL_KEYWORDS)
    /\ Len(tweets) = 2
    /\ tweets[1].matched_keywords = << <<"a">> >>
    /\ tweets[2].matched_keywords = << <<"b", " ", "c">> >>

(***************************************************************************)
(* Properties of the normalised items.                                     *)
(***************************************************************************)
\* the raw records of the pages of a request log, in the order received
RECURSIVE RawOfPages(_)
RawOfPages(log) ==
    IF log = <<>> THEN <<>> ELSE Head(log).data \o RawOfPages(Tail(log))

\* C20 as stated: every item of a search call has the four engagement counts,
\* natural numbers that are all 0 when the raw record has no metrics; its
\* creation time is null when the raw record has none; its identifier and text
\* are those of the raw record.
C20_ItemsNormalised ==
    LET raw == RawOfPages(requests)
    IN  /\ Len(all_tweets) = Len(raw)
        /\ \A i \in DOMAIN all_tweets :
              /\ all_tweets[i].id = raw[i].id
              /\ all_tweets[i].text = raw[i].text
              /\ raw[i].created_at = <<>> => all_tweets[i].created_at = <<>>
              /\ DOMAIN all_tweets[i].public_metrics
                     = {"like_count", "retweet_count", "reply_count", "quote_count"}
              /\ \A n \in DOMAIN all_tweets[i].public_metrics :
                    /\ all_tweets[i].public_metrics[n] \in Nat
                    /\ ~raw[i].public_metrics.truthy => all_tweets[i].public_metrics[n] = 0

(***************************************************************************)
(* Termination of a search call.                                           *)
(***************************************************************************)
\* the step is a continuation request answered with a rate-limit error
ThrottledPageRequest ==
    /\ s_pc = "paging"
    /\ Len(requests') = Len(requests) + 1
    /\ requests'[Len(requests')].kind = "TooManyRequests"

\* a continuation request answered with a rate-limit error leaves the function
\* where it was, after one sleep: same position, same token, same query, same
\* list; and whatever the loop sends carries the token and the query it holds.
\* No count of the retries is kept, so an endpoint that goes on answering this
\* way is asked again without end and the function does not return.
RetriesWhileThrottled ==
    /\ [][ThrottledPageRequest =>
             /\ s_pc' = "paging"
             /\ sleeps' = sleeps + 1
             /\ UNCHANGED <<s_kind, s_keyword, s_keywords, query, all_tweets, next_token,
                            s_exc>>]_vars
    /\ [][(s_pc = "paging" /\ requests' # requests) =>
             /\ requests'[Len(requests')].token = next_token
             /\ requests'[Len(requests')].query = query]_vars
    /\ [](s_pc = "paging" => next_token # 0)

\* C21 as stated: with finitely many rate-limit errors and continuation
\* tokens every search call eventually returns; a continuation request
\* answered with rate-limit errors is retried as long as they come.
C21_EveryCallReturns ==
    /\ <>(s_pc = "returned")
    /\ RetriesWhileThrottled

\* C21: with finitely many rate-limit errors and continuation tokens every
\* search call eventually ends: it returns its list or, when the initial
\* request of the batch search is answered with BadRequest, raises that error;
\* a continuation request answered with rate-limit errors is retried as long
\* as they come.
C21_EveryCallEnds ==
    /\ <>(s_pc \in {"returned", "raised"})
    /\ [](s_pc = "raised" =>
             /\ s_kind = "batch"
             /\ s_exc = "BadRequest"
             /\ Len(requests) = 1
             /\ requests[1].kind = "BadRequest")
    /\ [][s_pc \notin {"returned", "raised"}]_vars
    /\ RetriesWhileThrottled

\* a call returned after a continuation request was answered with a
\* rate-limit error as often as the endpoint may, then with a last page
C21_Witness ==
    /\ s_pc = "returned"
    /\ Len(requests) = MaxRateLimits + 2
    /\ requests[1].kind = "ok"
    /\ \A i \in 2..(MaxRateLimits + 1) : requests[i].kind = "TooManyRequests"
    /\ requests[Len(requests)].kind = "ok"
    /\ sleeps = MaxRateLimits

(***************************************************************************)
(* Properties of the summary of the report.                                *)
(***************************************************************************)
\* C22: in the report analyze_profile returns, total_analyzed is the number of
\* rows of the full list and the sum of controversial and non_controversial,
\* non_controversial is not negative, controversial is controversial_count (the
\* length of the flagged list), and total_tweets_found is at least the number
\* of distinct tweets classified.
C22_SummaryAddsUp ==
    report.returned =>
        /\ pc = "done"
        /\ report.summary.total_analyzed
              = report.summary.controversial + report.summary.non_controversial
        /\ report.summary.non_controversial >= 0
        /\ report.summary.total_analyzed = Len(report.tweets)
        /\ report.summary.controversial = report.controversial_count
        /\ report.controversial_count = Len(report.controversial_tweets)
        /\ report.total_tweets_found >= Cardinality({calls[i].id : i \in DOMAIN calls})
        /\ report.total_tweets_found >= Cardinality(Ids(report.tweets))

\* a report of two rows, one flagged entry, and more tweets found than classified
C22_Witness ==
    /\ report.returned
    /\ report.summary.total_analyzed = 2
    /\ report.summary.controversial = 1
    /\ report.summary.non_controversial = 1
    /\ report.total_tweets_found > Len(calls)
====
